---- MODULE Spec2Model ----
(***************************************************************************)
(* Model of script.py: track deduplication, the process_song fallback      *)
(* chain, and main's ThreadPoolExecutor / as_completed aggregation loop.   *)
(*                                                                         *)
(* Strings are sequences of one-character strings, so that the character   *)
(* filter of the sanitization and the "name|artist" identifier are         *)
(* computed rather than assumed.                                           *)
(***************************************************************************)
EXTENDS Integers, Sequences, FiniteSets, TLC

\* ------------------------------------------------------------------ bounds
MaxSongs == 3
MaxK == 2
MaxLen == 3
\* The gate of line 575 asks above 1000 songs; the lists of this model are
\* shorter, so the model asks above ConfirmAbove songs.
ConfirmAbove == 1

\* --------------------------------------------------------- Python values
\* None, and a dict key that is missing; both are falsy and are no strings.
None == <<"<None>">>
Absent == <<"<absent>">>

Falsy(v) == v = None \/ v = Absent \/ v = <<>>

\* The characters str.isalnum() accepts, among those the model's strings use.
AlnumChars == {"A", "B", "C", "L", "M", "u", "v", "w", "d", "o", "p", "s", "z", "1", "2"}

\* IsSafeChar that lets the path separator through.
IsSafeCharOrSlash(c) == c \in AlnumChars \/ c \in {" ", "-", "_", "/"}

\* c.isalnum() or c in (' ', '-', '_')
IsSafeChar(c) == c \in AlnumChars \/ c \in {" ", "-", "_"}

RECURSIVE LStrip(_)
LStrip(s) == IF s # <<>> /\ Head(s) = " " THEN LStrip(Tail(s)) ELSE s

RECURSIVE RStrip(_)
RStrip(s) == IF s # <<>> /\ s[Len(s)] = " " THEN RStrip(SubSeq(s, 1, Len(s) - 1)) ELSE s

\* "".join(c for c in s if c.isalnum() or c in (' ', '-', '_')).strip()
Sanitize(s) == LStrip(RStrip(SelectSeq(s, IsSafeChar)))

DOWNLOAD_FOLDER == <<"d">>
AUDIO_FORMAT == <<"o", "p", "u", "s">>

\* os.path.join(DOWNLOAD_FOLDER, subfolder) if subfolder else DOWNLOAD_FOLDER
DownloadPath(subfolder) ==
    IF subfolder # <<>> THEN DOWNLOAD_FOLDER \o <<"/">> \o subfolder ELSE DOWNLOAD_FOLDER

\* ------------------------------------------------------------ track records
SpotifySong(name, artist, uri, collection) ==
    [name |-> name, artist |-> artist, uri |-> uri, videoId |-> Absent,
     source |-> "spotify", collection |-> collection]

YtmusicSong(name, artist, videoId, collection) ==
    [name |-> name, artist |-> artist, uri |-> Absent, videoId |-> videoId,
     source |-> "ytmusic", collection |-> collection]

\* The records the listings of this model produce: a primary-catalog track,
\* video-catalog tracks with and without a video id (entry.get('id', '')), the
\* same (name, artist) in both catalogs, and a playlist whose title is None.
Tracks ==
    { SpotifySong(<<"A">>, <<"C">>, <<"u", "1">>, <<"L">>),
      YtmusicSong(<<"A">>, <<"C">>, <<>>, <<"M">>),
      YtmusicSong(<<"B">>, <<"C">>, <<"v">>, <<"L", "/">>),
      YtmusicSong(<<"C">>, <<"C">>, <<"w">>, None) }

RECURSIVE SeqsUpTo(_, _)
SeqsUpTo(S, n) ==
    IF n = 0 THEN {<<>>}
    ELSE LET shorter == SeqsUpTo(S, n - 1)
         IN  shorter \cup {Append(s, x) : s \in {t \in shorter : Len(t) = n - 1}, x \in S}

\* ------------------------------------------------------------ deduplication
\* identifier = f"{song['name']}|{song['artist']}"
Identifier(song) == song.name \o <<"|">> \o song.artist

\* DedupeLoop that never records a key as seen.
RECURSIVE DedupeLoopNoSeen(_, _, _, _)
DedupeLoopNoSeen(songs, i, seen, unique) ==
    IF i > Len(songs) THEN unique
    ELSE IF Identifier(songs[i]) \notin seen
         THEN DedupeLoopNoSeen(songs, i + 1, seen, Append(unique, songs[i]))
         ELSE DedupeLoopNoSeen(songs, i + 1, seen, unique)

\* The loop of main over all_songs, from position i with the set seen.
RECURSIVE DedupeLoop(_, _, _, _)
DedupeLoop(songs, i, seen, unique) ==
    IF i > Len(songs) THEN unique
    ELSE IF Identifier(songs[i]) \notin seen
         THEN DedupeLoop(songs, i + 1, seen \cup {Identifier(songs[i])}, Append(unique, songs[i]))
         ELSE DedupeLoop(songs, i + 1, seen, unique)

Dedupe(songs) == DedupeLoop(songs, 1, {}, <<>>)

\* ------------------------------------------------------------- backends
\* An exception that propagates out of a call.
Raise == <<"<raise>">>

\* What one call of a backend function did: the value it returned ("path",
\* "match", "none") or "raise", and whether an exception was raised inside it.
LogEntry(fn, ret, exc) == [fn |-> fn, ret |-> ret, exc |-> exc]

\* download_with_zotify: mk is what Path.mkdir does ("ok", "raise"), zt what
\* Zotify.download_track does ("file": an existing output file, "nofile",
\* "raise"). Every exception is caught and None is returned.
download_with_zotify(avail, mk, zt, track_uri, subfolder) ==
    IF ~avail THEN [ret |-> None, exc |-> FALSE]
    ELSE IF mk = "raise" \/ zt = "raise" THEN [ret |-> None, exc |-> TRUE]
    ELSE IF zt = "file"
         THEN [ret |-> DownloadPath(subfolder) \o <<"/">> \o track_uri, exc |-> FALSE]
         ELSE [ret |-> None, exc |-> FALSE]

\* download_youtube_audio: Path.mkdir is outside the try, so its exception
\* propagates; an exception of ydl.download is swallowed and None returned.
download_youtube_audio(mk, dl, track_name, artist_name, subfolder) ==
    IF mk = "raise" THEN [ret |-> Raise, exc |-> TRUE]
    ELSE IF dl = "raise" THEN [ret |-> None, exc |-> TRUE]
    ELSE [ret |-> DownloadPath(subfolder) \o <<"/">>
                    \o Sanitize(artist_name \o <<" ", "-", " ">> \o track_name)
                    \o <<".">> \o AUDIO_FORMAT,
          exc |-> FALSE]

\* 'youtube': None
NoVideo == [title |-> Absent, url |-> Absent, id |-> Absent, download_path |-> Absent]

VideoUrl(id) == <<"w", "=">> \o id

\* The id of the first entry of a ytsearch1 result.
SearchHit == <<"s">>

\* search_youtube_for_song that downloads the match whatever the download flag.
search_youtube_for_song_downloads(sr, mk, dl, track_name, artist_name, download, subfolder) ==
    LET info == [title |-> SearchHit, url |-> VideoUrl(SearchHit), id |-> SearchHit,
                 download_path |-> Absent]
        d    == download_youtube_audio(mk, dl, track_name, artist_name, subfolder)
        dret == IF d.ret = Raise THEN "raise" ELSE IF d.ret = None THEN "none" ELSE "path"
    IN  IF sr = "raise"
        THEN [info |-> NoVideo,
              log |-> <<LogEntry("search_youtube_for_song", "none", TRUE)>>]
        ELSE IF sr = "empty"
        THEN [info |-> NoVideo,
              log |-> <<LogEntry("search_youtube_for_song", "none", FALSE)>>]
        ELSE IF d.ret = Raise
        THEN [info |-> NoVideo,
              log |-> <<LogEntry("search_youtube_for_song", "none", TRUE),
                        LogEntry("download_youtube_audio", dret, d.exc)>>]
        ELSE [info |-> [info EXCEPT !.download_path = d.ret],
              log |-> <<LogEntry("search_youtube_for_song", "match", d.exc),
                        LogEntry("download_youtube_audio", dret, d.exc)>>]

\* search_youtube_for_song: sr is what ydl.extract_info does ("match",
\* "empty", "raise"). The bare except also swallows what the nested
\* download_youtube_audio raises. Returns the video_info (NoVideo for None) and
\* the calls made, in order.
search_youtube_for_song(sr, mk, dl, track_name, artist_name, download, subfolder) ==
    LET info == [title |-> SearchHit, url |-> VideoUrl(SearchHit), id |-> SearchHit,
                 download_path |-> Absent]
        d    == download_youtube_audio(mk, dl, track_name, artist_name, subfolder)
        dret == IF d.ret = Raise THEN "raise" ELSE IF d.ret = None THEN "none" ELSE "path"
    IN  IF sr = "raise"
        THEN [info |-> NoVideo,
              log |-> <<LogEntry("search_youtube_for_song", "none", TRUE)>>]
        ELSE IF sr = "empty"
        THEN [info |-> NoVideo,
              log |-> <<LogEntry("search_youtube_for_song", "none", FALSE)>>]
        ELSE IF ~download
        THEN [info |-> info,
              log |-> <<LogEntry("search_youtube_for_song", "match", FALSE)>>]
        ELSE IF d.ret = Raise
        THEN [info |-> NoVideo,
              log |-> <<LogEntry("search_youtube_for_song", "none", TRUE),
                        LogEntry("download_youtube_audio", dret, d.exc)>>]
        ELSE [info |-> [info EXCEPT !.download_path = d.ret],
              log |-> <<LogEntry("search_youtube_for_song", "match", d.exc),
                        LogEntry("download_youtube_audio", dret, d.exc)>>]

\* ----------------------------------------------------------- process_song
\* A task: st is the position of its call of process_song ("new": not
\* submitted, "queued", "l452" / "l459" / "l472": about to execute that line,
\* "returned", "raised": the exception left process_song), then the returned
\* tuple (success, result, message) and the backend calls made.
NewResult(song) ==
    [spotify |-> song, youtube |-> NoVideo, spotify_direct |-> FALSE, download_path |-> Absent]

NewTask(song) ==
    [st |-> "new", log |-> <<>>, success |-> FALSE, result |-> NewResult(song), message |-> ""]

Return(t, success, result, message, log) ==
    [st |-> "returned", log |-> t.log \o log, success |-> success, result |-> result,
     message |-> message]

\* lines 448-450: iterating a None collection raises before the try.
Prologue(t, song) ==
    IF song.collection = None THEN [t EXCEPT !.st = "raised"] ELSE [t EXCEPT !.st = "l452"]

safe_subfolder(song) == Sanitize(song.collection)

\* ZotifyStep that goes on to the next step after a successful direct download.
ZotifyStepFallsThrough(t, song, download, avail, mk, zt) ==
    IF song.source = "spotify" /\ download /\ avail
    THEN LET r == download_with_zotify(avail, mk, zt, song.uri, safe_subfolder(song))
         IN  [t EXCEPT !.st = "l459",
                       !.result = IF ~Falsy(r.ret)
                                  THEN [t.result EXCEPT !.spotify_direct = TRUE,
                                                        !.download_path = r.ret]
                                  ELSE t.result,
                       !.log = t.log \o <<LogEntry("download_with_zotify",
                                                   IF ~Falsy(r.ret) THEN "path" ELSE "none",
                                                   r.exc)>>]
    ELSE [t EXCEPT !.st = "l459"]

\* ZotifyStep that gives up when the direct download yields nothing.
ZotifyStepNoFallback(t, song, download, avail, mk, zt) ==
    IF song.source = "spotify" /\ download /\ avail
    THEN LET r == download_with_zotify(avail, mk, zt, song.uri, safe_subfolder(song))
         IN  IF ~Falsy(r.ret)
             THEN Return(t, TRUE,
                         [t.result EXCEPT !.spotify_direct = TRUE, !.download_path = r.ret],
                         "Spotify", <<LogEntry("download_with_zotify", "path", r.exc)>>)
             ELSE Return(t, FALSE, t.result, "Failed",
                         <<LogEntry("download_with_zotify", "none", r.exc)>>)
    ELSE [t EXCEPT !.st = "l459"]

\* lines 452-457
ZotifyStep(t, song, download, avail, mk, zt) ==
    IF song.source = "spotify" /\ download /\ avail
    THEN LET r == download_with_zotify(avail, mk, zt, song.uri, safe_subfolder(song))
         IN  IF ~Falsy(r.ret)
             THEN Return(t, TRUE,
                         [t.result EXCEPT !.spotify_direct = TRUE, !.download_path = r.ret],
                         "Spotify", <<LogEntry("download_with_zotify", "path", r.exc)>>)
             ELSE [t EXCEPT !.st = "l459",
                            !.log = t.log \o <<LogEntry("download_with_zotify", "none", r.exc)>>]
    ELSE [t EXCEPT !.st = "l459"]

\* YtDirectStep without the try/except around it: the exception leaves the call.
YtDirectStepUncaught(t, song, download, mk, dl) ==
    IF song.source = "ytmusic" /\ ~Falsy(song.videoId)
    THEN LET yt == [title |-> song.name, url |-> VideoUrl(song.videoId), id |-> song.videoId,
                    download_path |-> Absent]
             res == [t.result EXCEPT !.youtube = yt]
             r == download_youtube_audio(mk, dl, song.name, song.artist, safe_subfolder(song))
         IN  IF ~download THEN Return(t, TRUE, res, "Found", <<>>)
             ELSE IF r.ret = Raise
             THEN [t EXCEPT !.st = "raised", !.result = res,
                            !.log = t.log \o <<LogEntry("download_youtube_audio", "raise", TRUE)>>]
             ELSE IF ~Falsy(r.ret)
             THEN Return(t, TRUE, [res EXCEPT !.youtube.download_path = r.ret], "YouTube",
                         <<LogEntry("download_youtube_audio", "path", r.exc)>>)
             ELSE Return(t, FALSE, res, "Failed",
                         <<LogEntry("download_youtube_audio", "none", r.exc)>>)
    ELSE [t EXCEPT !.st = "l472"]

\* lines 459-470
YtDirectStep(t, song, download, mk, dl) ==
    IF song.source = "ytmusic" /\ ~Falsy(song.videoId)
    THEN LET yt == [title |-> song.name, url |-> VideoUrl(song.videoId), id |-> song.videoId,
                    download_path |-> Absent]
             res == [t.result EXCEPT !.youtube = yt]
             r == download_youtube_audio(mk, dl, song.name, song.artist, safe_subfolder(song))
         IN  IF ~download THEN Return(t, TRUE, res, "Found", <<>>)
             ELSE IF r.ret = Raise
             THEN Return(t, FALSE, res, "Error",
                         <<LogEntry("download_youtube_audio", "raise", TRUE)>>)
             ELSE IF ~Falsy(r.ret)
             THEN Return(t, TRUE, [res EXCEPT !.youtube.download_path = r.ret], "YouTube",
                         <<LogEntry("download_youtube_audio", "path", r.exc)>>)
             ELSE Return(t, FALSE, res, "Failed",
                         <<LogEntry("download_youtube_audio", "none", r.exc)>>)
    ELSE [t EXCEPT !.st = "l472"]

\* SearchStep that lets "not found" leave process_song as an exception.
SearchStepNotFoundRaises(t, song, download, sr, mk, dl) ==
    LET r == search_youtube_for_song(sr, mk, dl, song.name, song.artist, download,
                                     safe_subfolder(song))
        res == [t.result EXCEPT !.youtube = r.info]
    IN  IF r.info # NoVideo
        THEN IF download /\ ~Falsy(r.info.download_path)
             THEN Return(t, TRUE, res, "YouTube", r.log)
             ELSE Return(t, TRUE, res, "Found", r.log)
        ELSE [t EXCEPT !.st = "raised", !.result = res, !.log = t.log \o r.log]

\* lines 472-480
SearchStep(t, song, download, sr, mk, dl) ==
    LET r == search_youtube_for_song(sr, mk, dl, song.name, song.artist, download,
                                     safe_subfolder(song))
        res == [t.result EXCEPT !.youtube = r.info]
    IN  IF r.info # NoVideo
        THEN IF download /\ ~Falsy(r.info.download_path)
             THEN Return(t, TRUE, res, "YouTube", r.log)
             ELSE Return(t, TRUE, res, "Found", r.log)
        ELSE Return(t, FALSE, res, "Not found", r.log)

\* ------------------------------------------------------------- URL parsing
\* [a-zA-Z0-9]
IdChars ==
    {
      "a", "b", "c", "d", "e", "f", "g", "h", "i", "j", "k", "l", "m", "n", "o", "p", "q", "r",
      "s", "t", "u", "v", "w", "x", "y", "z", "A", "B", "C", "D", "E", "F", "G", "H", "I", "J",
      "K", "L", "M", "N", "O", "P", "Q", "R", "S", "T", "U", "V", "W", "X", "Y", "Z", "0", "1",
      "2", "3", "4", "5", "6", "7", "8", "9" }

\* [a-zA-Z0-9_-]
YtIdChars == IdChars \cup {"_", "-"}

\* The literal m occurs in s at position p.
OccursAt(s, m, p) == p + Len(m) - 1 <= Len(s) /\ SubSeq(s, p, p + Len(m) - 1) = m

\* m in s
Contains(s, m) == \E p \in 1..Len(s) : OccursAt(s, m, p)

\* The longest run of characters of class in s from position p on.
RECURSIVE RunFrom(_, _, _)
RunFrom(s, p, class) ==
    IF p <= Len(s) /\ s[p] \in class THEN <<s[p]>> \o RunFrom(s, p + 1, class) ELSE <<>>

\* re.search of the literal m followed by ([class]+): group 1 of the leftmost
\* match, None without match.
RegexSearch(s, m, class) ==
    LET starts == {p \in 1..Len(s) : OccursAt(s, m, p) /\ RunFrom(s, p + Len(m), class) # <<>>}
    IN  IF starts = {} THEN None
        ELSE RunFrom(s, (CHOOSE p \in starts : \A q \in starts : p <= q) + Len(m), class)

SpotifyCom == <<"s", "p", "o", "t", "i", "f", "y", ".", "c", "o", "m">>
SpotifyColon == <<"s", "p", "o", "t", "i", "f", "y", ":">>
YoutubeCom == <<"y", "o", "u", "t", "u", "b", "e", ".", "c", "o", "m">>
MusicYoutubeCom == <<"m", "u", "s", "i", "c", ".", "y", "o", "u", "t", "u", "b", "e", ".", "c", "o", "m">>
ExampleCom == <<"e", "x", "a", "m", "p", "l", "e", ".", "c", "o", "m">>
ListEq == <<"l", "i", "s", "t", "=">>

\* The patterns of parse_spotify_url, in order, with the type each gives
\* ('playlist' if 'playlist' in pattern else 'track').
SpotifyPatterns ==
    << [lit |-> SpotifyCom \o <<"/", "p", "l", "a", "y", "l", "i", "s", "t", "/">>, type |-> "playlist"],
       [lit |-> SpotifyCom \o <<"/", "t", "r", "a", "c", "k", "/">>, type |-> "track"],
       [lit |-> SpotifyColon \o <<"p", "l", "a", "y", "l", "i", "s", "t", ":">>, type |-> "playlist"],
       [lit |-> SpotifyColon \o <<"t", "r", "a", "c", "k", ":">>, type |-> "track"] >>

\* parse_spotify_url: the first pattern that matches decides; (None, None) else.
RECURSIVE ParseSpotifyFrom(_, _)
ParseSpotifyFrom(url, k) ==
    IF k > Len(SpotifyPatterns) THEN [id |-> None, type |-> "None"]
    ELSE IF RegexSearch(url, SpotifyPatterns[k].lit, IdChars) # None
         THEN [id |-> RegexSearch(url, SpotifyPatterns[k].lit, IdChars),
               type |-> SpotifyPatterns[k].type]
         ELSE ParseSpotifyFrom(url, k + 1)

parse_spotify_url(url) == ParseSpotifyFrom(url, 1)

\* The patterns of parse_youtube_url, in order.
YoutubePatterns ==
    << ListEq,
       YoutubeCom \o <<"/", "p", "l", "a", "y", "l", "i", "s", "t", "?">> \o ListEq,
       MusicYoutubeCom \o <<"/", "p", "l", "a", "y", "l", "i", "s", "t", "?">> \o ListEq >>

RECURSIVE ParseYoutubeFrom(_, _)
ParseYoutubeFrom(url, k) ==
    IF k > Len(YoutubePatterns) THEN None
    ELSE IF RegexSearch(url, YoutubePatterns[k], YtIdChars) # None
         THEN RegexSearch(url, YoutubePatterns[k], YtIdChars)
         ELSE ParseYoutubeFrom(url, k + 1)

parse_youtube_url(url) == ParseYoutubeFrom(url, 1)

\* The URLs of this model: two Spotify playlists (URL and URI form), a Spotify
\* track, a Spotify URL without id, a YouTube playlist, a YouTube video without
\* list, and a URL of neither catalog.
UrlSpotifyPlaylist1 == SpotifyCom \o <<"/", "p", "l", "a", "y", "l", "i", "s", "t", "/", "p", "1", "?", "s", "i", "=", "x">>
UrlSpotifyPlaylist2 == SpotifyColon \o <<"p", "l", "a", "y", "l", "i", "s", "t", ":", "p", "2">>
UrlSpotifyTrack == SpotifyCom \o <<"/", "t", "r", "a", "c", "k", "/", "t", "1">>
UrlSpotifyNoId == SpotifyCom \o <<"/", "p", "l", "a", "y", "l", "i", "s", "t", "/">>
UrlYoutubePlaylist == MusicYoutubeCom \o <<"/", "p", "l", "a", "y", "l", "i", "s", "t", "?", "l", "i", "s", "t", "=", "y", "-", "1">>
UrlYoutubeVideo == YoutubeCom \o <<"/", "w", "a", "t", "c", "h", "?", "v", "=", "x">>
UrlOther == ExampleCom \o <<"/", "x">>

Urls == {UrlSpotifyPlaylist1, UrlSpotifyPlaylist2, UrlSpotifyTrack, UrlSpotifyNoId,
         UrlYoutubePlaylist, UrlYoutubeVideo, UrlOther}

\* ---------------------------------------------------------------- catalogs
\* What the Spotify catalog of this model holds: the user's saved tracks, the
\* user's playlists, and the items of each playlist (item['track'] may be None).
NullTrack == [name |-> None, artist |-> None, uri |-> None]
SpotifySavedItems == << [name |-> <<"A">>, artist |-> <<"C">>, uri |-> <<"u", "1">>] >>
SpotifyUserPlaylists ==
    << [id |-> <<"p", "1">>, name |-> <<"L">>, tracks_total |-> 1, source |-> "spotify"],
       [id |-> <<"p", "2">>, name |-> <<"M">>, tracks_total |-> 1, source |-> "spotify"] >>
SpotifyPlaylistIds == {SpotifyUserPlaylists[i].id : i \in 1..Len(SpotifyUserPlaylists)}
SpotifyPlaylistName(id) ==
    (CHOOSE p \in {SpotifyUserPlaylists[i] : i \in 1..Len(SpotifyUserPlaylists)} : p.id = id).name
SpotifyPlaylistItems(id) ==
    IF id = <<"p", "1">>
    THEN << [name |-> <<"A">>, artist |-> <<"C">>, uri |-> <<"u", "1">>] >>
    ELSE << NullTrack, [name |-> <<"B">>, artist |-> <<"C">>, uri |-> <<"u", "2">>] >>

\* What the video catalog holds: the entries of the liked list and of the one
\* playlist, each with title, uploader and id.
YoutubePlaylistIds == {<<"y", "-", "1">>}
YoutubePlaylistTitle == <<"M">>
YoutubeEntries ==
    << [title |-> <<"C", " ", "-", " ", "B">>, uploader |-> <<"z">>, id |-> <<"v">>],
       [title |-> <<"A">>, uploader |-> <<"C">>, id |-> <<"w">>] >>

\* What a catalog does when asked: it answers, or the call raises.
CatalogOutcomes == {"ok", "raise"}
\* The video catalog may also raise while its entries are being iterated.
YoutubeOutcomes == {"ok", "raise", "partial"}

SpotifyLikedCollection == <<"S", "p", "o", "t", "i", "f", "y", " ", "L", "i", "k", "e", "d", " ", "S", "o", "n", "g", "s">>
YoutubeLikedCollection == <<"Y", "o", "u", "T", "u", "b", "e", " ", "M", "u", "s", "i", "c", " ", "L", "i", "k", "e", "d", " ", "S", "o", "n", "g", "s">>
SpaceDashSpace == <<" ", "-", " ">>

\* lines 257-263, 325-331: one record per item whose track is not None
RECURSIVE TracksOfItems(_, _)
TracksOfItems(items, collection) ==
    IF items = <<>> THEN <<>>
    ELSE (IF Head(items) # NullTrack
          THEN <<SpotifySong(Head(items).name, Head(items).artist, Head(items).uri, collection)>>
          ELSE <<>>) \o TracksOfItems(Tail(items), collection)

\* What a call that may raise does: it raises, or it returns a value.
Raises == [exc |-> TRUE, value |-> <<>>]
Gives(value) == [exc |-> FALSE, value |-> value]

\* get_spotify_liked_songs with credentials: no exception is caught, so a
\* raising catalog call leaves the function.
get_spotify_liked_songs(cat) ==
    IF cat = "raise" THEN Raises
    ELSE Gives([i \in 1..Len(SpotifySavedItems) |->
                   SpotifySong(SpotifySavedItems[i].name, SpotifySavedItems[i].artist,
                               SpotifySavedItems[i].uri, SpotifyLikedCollection)])

\* get_spotify_playlists with credentials; "empty" is a user without playlists.
get_spotify_playlists(cat) ==
    IF cat = "raise" THEN Raises
    ELSE IF cat = "empty" THEN Gives(<<>>)
    ELSE Gives(SpotifyUserPlaylists)

\* get_spotify_playlist_songs with credentials: no exception is caught.
get_spotify_playlist_songs(cat, playlist_id, playlist_name) ==
    IF cat = "raise" THEN Raises
    ELSE Gives(TracksOfItems(SpotifyPlaylistItems(playlist_id), playlist_name))

\* Whether get_spotify_playlist_from_url reaches the catalog (line 242).
SpotifyUrlAcceptsAnyType(url) == ~Falsy(parse_spotify_url(url).id)

SpotifyUrlAccepted(url) ==
    ~Falsy(parse_spotify_url(url).id) /\ parse_spotify_url(url).type = "playlist"

\* get_spotify_playlist_from_url: the songs of the pair it returns. An invalid
\* URL gives (None, []) before any catalog call; an exception from the catalog
\* (an unknown id included) is caught and gives (None, []).
get_spotify_playlist_from_url(cat, playlist_url) ==
    LET playlist_id == parse_spotify_url(playlist_url).id
    IN  IF ~SpotifyUrlAccepted(playlist_url) THEN <<>>
        ELSE IF cat = "raise" \/ playlist_id \notin SpotifyPlaylistIds THEN <<>>
        ELSE TracksOfItems(SpotifyPlaylistItems(playlist_id), SpotifyPlaylistName(playlist_id))

\* The first position where m occurs in s (m occurs in s).
FirstOccurrence(s, m) ==
    CHOOSE p \in 1..Len(s) : OccursAt(s, m, p) /\ \A q \in 1..(p - 1) : ~OccursAt(s, m, q)

Strip(s) == LStrip(RStrip(s))

\* lines 366-373, 409-416: artist and song from the title, or uploader and title
YoutubeEntrySong(entry, collection) ==
    IF Contains(entry.title, SpaceDashSpace)
    THEN LET p == FirstOccurrence(entry.title, SpaceDashSpace)
         IN  YtmusicSong(Strip(SubSeq(entry.title, p + 3, Len(entry.title))),
                         Strip(SubSeq(entry.title, 1, p - 1)), entry.id, collection)
    ELSE YtmusicSong(Strip(entry.title), Strip(entry.uploader), entry.id, collection)

\* The entries the loop has handled when the catalog behaves as cat.
YoutubeEntriesSeen(cat) ==
    IF cat = "ok" THEN YoutubeEntries
    ELSE IF cat = "partial" THEN SubSeq(YoutubeEntries, 1, 1)
    ELSE <<>>

\* get_ytmusic_liked_songs: any exception gives [].
get_ytmusic_liked_songs(cat) ==
    IF cat # "ok" THEN <<>>
    ELSE [i \in 1..Len(YoutubeEntries) |-> YoutubeEntrySong(YoutubeEntries[i], YoutubeLikedCollection)]

\* Whether get_ytmusic_playlist_from_url reaches the catalog (line 385).
YoutubeUrlAccepted(url) == ~Falsy(parse_youtube_url(url))

\* get_ytmusic_playlist_from_url: the songs of the pair it returns; after an
\* exception these are the songs appended so far.
get_ytmusic_playlist_from_url(cat, playlist_url) ==
    IF ~YoutubeUrlAccepted(playlist_url) THEN <<>>
    ELSE IF parse_youtube_url(playlist_url) \notin YoutubePlaylistIds THEN <<>>
    ELSE LET seen == YoutubeEntriesSeen(cat)
         IN  [i \in 1..Len(seen) |-> YoutubeEntrySong(seen[i], YoutubePlaylistTitle)]

\* ------------------------------------------------------- playlist selection
Digits == <<"0", "1", "2", "3", "4", "5", "6", "7", "8", "9">>
DigitChars == {Digits[i] : i \in 1..Len(Digits)}
DigitValue(c) == (CHOOSE i \in 1..Len(Digits) : Digits[i] = c) - 1

\* str.lower() on the letters the typed choices use
LowerChar(c) == IF c = "A" THEN "a" ELSE IF c = "L" THEN "l" ELSE c
LowerStr(s) == [i \in 1..Len(s) |-> LowerChar(s[i])]

\* s.split(',')
RECURSIVE SplitComma(_)
SplitComma(s) ==
    IF ~Contains(s, <<",">>) THEN <<s>>
    ELSE LET p == FirstOccurrence(s, <<",">>)
         IN  <<SubSeq(s, 1, p - 1)>> \o SplitComma(SubSeq(s, p + 1, Len(s)))

\* The strings int() accepts among those typed: an optional sign, then digits.
IsIntLiteral(x) ==
    LET body == IF x # <<>> /\ Head(x) \in {"-", "+"} THEN Tail(x) ELSE x
    IN  body # <<>> /\ \A i \in 1..Len(body) : body[i] \in DigitChars

RECURSIVE DigitsValue(_)
DigitsValue(ds) ==
    IF ds = <<>> THEN 0 ELSE 10 * DigitsValue(SubSeq(ds, 1, Len(ds) - 1)) + DigitValue(ds[Len(ds)])

\* int(x) for an x int() accepts
IntOf(x) ==
    IF Head(x) = "-" THEN 0 - DigitsValue(Tail(x))
    ELSE IF Head(x) = "+" THEN DigitsValue(Tail(x))
    ELSE DigitsValue(x)

NonEmptyStrip(x) == Strip(x) # <<>>

\* [playlists[i] for i in indices if 0 <= i < len(playlists)], indices being
\* the typed numbers minus one
RECURSIVE PickPlaylists(_, _)
PickPlaylists(parts, playlists) ==
    IF parts = <<>> THEN <<>>
    ELSE LET i == IntOf(Strip(Head(parts))) - 1
         IN  (IF 0 <= i /\ i < Len(playlists) THEN <<playlists[i + 1]>> ELSE <<>>)
             \o PickPlaylists(Tail(parts), playlists)

\* One round of the loop of lines 525-540: what selected is after the user
\* typed typed. An empty choice and a ValueError leave it empty.
SelectPlaylists(typed, playlists) ==
    LET choice == Strip(typed)
        parts  == SelectSeq(SplitComma(choice), NonEmptyStrip)
    IN  IF choice = <<>> THEN <<>>
        ELSE IF LowerStr(choice) = <<"a", "l", "l">> THEN playlists
        ELSE IF \E k \in 1..Len(parts) : ~IsIntLiteral(Strip(parts[k])) THEN <<>>
        ELSE PickPlaylists(parts, playlists)

\* What the user may type at the selection prompt.
Choices == {<<>>, <<" ">>, <<"a", "l", "l">>, <<"A", "l", "l">>, <<"1">>, <<"2">>, <<"1", ",", "2">>, <<"2", ",", "1">>, <<"3">>, <<"0">>, <<"x">>, <<"1", ",", "x">>, <<"1", ",">>, <<" ", "1", " ">>}

\* ------------------------------------------------------------------- main
VARIABLES
    all_songs,          \* the records collected from the sources
    download_songs,     \* the answer to "Download? (y/n)"
    zotify_available,   \* set by check_zotify
    max_workers,        \* MAX_CONCURRENT_DOWNLOADS
    unique_songs,       \* all_songs without duplicates
    gate_answers,       \* the answers given to "1000+ songs. Continue?", lowered
    pc,                 \* position of the main thread
    futures,            \* the songs (by position) submitted so far, in order
    queue,              \* the executor's work queue: submitted, not started
    task,               \* task[i]: the call of process_song for unique_songs[i]
    yielded,            \* futures as_completed has handed to the loop
    results,            \* main's results list
    successful,         \* main's success counter
    report,             \* the list written to results.json
    writes,             \* number of times results.json was written
    summary,            \* the counts printed after the run
    san_in,             \* a string handed to the sanitization
    san_out,            \* what the sanitization made of it
    file_exists,        \* os.path.exists('playlists.txt')
    file_lines,         \* the lines of playlists.txt
    credentials,        \* SPOTIFY_CLIENT_ID and SPOTIFY_CLIENT_SECRET are set
    urls,               \* process_playlists_file's urls
    line_no,            \* the position in urls of the line handled next, 0 outside the file
    source_choice,      \* the answer to "Choice (1-3)"
    spotify_choice,     \* the answer to "Choice (1-4)"
    ytm_choice,         \* the answer to "Choice (1-2)"
    playlists,          \* main's playlists
    selected,           \* main's selected, the playlists still to fetch
    catalog_log,        \* the catalog requests made so far, in order
    page_fn,            \* the paginated listing function being followed
    listing,            \* the catalog's listing: its items, in order
    offset,             \* the listing function's offset
    fetched,            \* the positions of the listing the function has appended
    requests,           \* the offsets the function has requested, in order
    page_pc,            \* position of the listing function
    dirs,               \* the directories that exist
    root_path,          \* Zotify.CONFIG.ROOT_PATH
    worker              \* worker[w]: the download call worker thread w is in

vars == <<all_songs, download_songs, zotify_available, max_workers, unique_songs, gate_answers,
          pc, futures, queue, task, yielded, results, successful, report, writes, summary,
          san_in, san_out, file_exists, file_lines, credentials, urls, line_no, source_choice,
          spotify_choice, ytm_choice, playlists, selected, catalog_log, page_fn, listing,
          offset, fetched, requests, page_pc, dirs, root_path, worker>>

config == <<all_songs, download_songs, zotify_available, max_workers>>
output == <<report, writes, summary>>
sanitizer == <<san_in, san_out>>
environment == <<file_exists, file_lines, credentials>>
choices == <<source_choice, spotify_choice, ytm_choice>>
sources == <<environment, urls, line_no, choices, playlists, selected, catalog_log>>

\* No source is being collected: main is past line 564.
InitSources ==
    /\ file_exists = FALSE
    /\ file_lines = <<>>
    /\ credentials = FALSE
    /\ urls = <<>>
    /\ line_no = 0
    /\ source_choice = ""
    /\ spotify_choice = ""
    /\ ytm_choice = ""
    /\ playlists = <<>>
    /\ selected = <<>>
    /\ catalog_log = <<>>

paging == <<page_fn, listing, offset, fetched, requests, page_pc>>
disk == <<dirs, root_path, worker>>

\* No listing function is being followed on its own.
InitPaging ==
    /\ page_fn = ""
    /\ listing = <<>>
    /\ offset = 0
    /\ fetched = <<>>
    /\ requests = <<>>
    /\ page_pc = "idle"

\* No download call is being followed on its own.
InitDisk ==
    /\ dirs = {}
    /\ root_path = Absent
    /\ worker = <<>>

\* No string is being sanitized on its own.
InitSanitizer ==
    /\ san_in = <<>>
    /\ san_out = Absent

NoSummary == [processed |-> 0, successful |-> 0, failed |-> 0]

InitMain ==
    /\ unique_songs = <<>>
    /\ gate_answers = <<>>
    /\ pc = "dedupe"
    /\ futures = <<>>
    /\ queue = <<>>
    /\ task = <<>>
    /\ yielded = {}
    /\ results = <<>>
    /\ successful = 0
    /\ report = <<>>
    /\ writes = 0
    /\ summary = NoSummary

Init ==
    /\ all_songs \in SeqsUpTo(Tracks, MaxSongs)
    /\ download_songs \in BOOLEAN
    /\ zotify_available \in BOOLEAN
    /\ max_workers \in 1..MaxK
    /\ InitMain
    /\ InitSanitizer
    /\ InitSources
    /\ InitPaging
    /\ InitDisk

Tasks == DOMAIN task

Running == {i \in Tasks : task[i].st \in {"l452", "l459", "l472"}}
Finished == {i \in Tasks : task[i].st \in {"returned", "raised"}}

\* line 575: len(unique_songs) > 1000, with the model's ConfirmAbove for 1000
GateNeeded(n) == n > ConfirmAbove

\* lines 565-575
Deduplicate ==
    /\ pc = "dedupe"
    /\ unique_songs' = Dedupe(all_songs)
    /\ task' = [i \in 1..Len(unique_songs') |-> NewTask(unique_songs'[i])]
    /\ pc' = IF GateNeeded(Len(unique_songs')) THEN "gate" ELSE "submit"
    /\ UNCHANGED <<config, gate_answers, sanitizer, sources, futures, queue, yielded, results,
                   successful, output, paging, disk>>

\* What the user may type at a y/n prompt.
Answers == {"y", "Y", "n", ""}

\* str.lower() on those answers
Lower(a) == IF a = "Y" THEN "y" ELSE a

\* ConfirmedGate with the test of line 576 inverted.
ConfirmedGateInverted(a) == Lower(a) # "y"

\* line 576: main goes on unless input(...).lower() != 'y'
ConfirmedGate(a) == Lower(a) = "y"

\* lines 576-577: the prompt of the gate; main returns unless the answer is y
Confirm ==
    /\ pc = "gate"
    /\ \E a \in Answers :
          /\ gate_answers' = Append(gate_answers, Lower(a))
          /\ pc' = IF ConfirmedGate(a) THEN "submit" ELSE "declined"
    /\ UNCHANGED <<config, sanitizer, sources, unique_songs, futures, queue, task, yielded,
                   results, successful, output, paging, disk>>

\* line 588: enumerate(unique_songs, 1) after the songs in submitted
NextToSubmit(submitted) == Len(submitted) + 1

\* line 587: one executor.submit of the dict comprehension, in list order
Submit ==
    /\ pc = "submit"
    /\ NextToSubmit(futures) \in 1..Len(unique_songs)
    /\ futures' = Append(futures, NextToSubmit(futures))
    /\ queue' = Append(queue, NextToSubmit(futures))
    /\ task' = [task EXCEPT ![NextToSubmit(futures)].st = "queued"]
    /\ UNCHANGED <<config, gate_answers, sanitizer, sources, unique_songs, pc, yielded, results,
                   successful, output, paging, disk>>

\* line 589: every song is submitted; the as_completed loop begins
Submitted ==
    /\ pc = "submit"
    /\ NextToSubmit(futures) \notin 1..Len(unique_songs)
    /\ pc' = "collect"
    /\ UNCHANGED <<config, gate_answers, sanitizer, sources, unique_songs, futures, queue, task, yielded, results,
                   successful, output, paging, disk>>

\* CanStart that keeps one worker of the pool idle.
CanStartStarves(running, k) == Cardinality(running) < k - 1

\* CanStart that lets one task more than max_workers in.
CanStartOffByOne(running, k) == Cardinality(running) <= k

\* ThreadPoolExecutor(max_workers=...): a worker is free to take a work item
CanStart(running, k) == Cardinality(running) < k

\* A worker takes the oldest work item and enters process_song (lines 448-450).
Begin(i) ==
    /\ queue # <<>>
    /\ i = Head(queue)
    /\ CanStart(Running, max_workers)
    /\ queue' = Tail(queue)
    /\ task' = [task EXCEPT ![i] = Prologue(task[i], unique_songs[i])]
    /\ UNCHANGED <<config, gate_answers, sanitizer, sources, unique_songs, pc, futures, yielded, results,
                   successful, output, paging, disk>>

DirectSpotify(i) ==
    /\ task[i].st = "l452"
    /\ \E mk \in {"ok", "raise"}, zt \in {"file", "nofile", "raise"} :
          task' = [task EXCEPT ![i] = ZotifyStep(task[i], unique_songs[i], download_songs,
                                                zotify_available, mk, zt)]
    /\ UNCHANGED <<config, gate_answers, sanitizer, sources, unique_songs, pc, futures, queue, yielded, results,
                   successful, output, paging, disk>>

DirectYoutube(i) ==
    /\ task[i].st = "l459"
    /\ \E mk \in {"ok", "raise"}, dl \in {"ok", "raise"} :
          task' = [task EXCEPT ![i] = YtDirectStep(task[i], unique_songs[i], download_songs,
                                                  mk, dl)]
    /\ UNCHANGED <<config, gate_answers, sanitizer, sources, unique_songs, pc, futures, queue, yielded, results,
                   successful, output, paging, disk>>

\* Search by a worker that also counts its own success.
SearchCounts(i) ==
    /\ task[i].st = "l472"
    /\ \E sr \in {"match", "empty", "raise"}, mk \in {"ok", "raise"}, dl \in {"ok", "raise"} :
          task' = [task EXCEPT ![i] = SearchStep(task[i], unique_songs[i], download_songs,
                                                sr, mk, dl)]
    /\ successful' = successful + 1
    /\ UNCHANGED <<config, gate_answers, sanitizer, sources, unique_songs, pc, futures, queue,
                   yielded, results, output, paging, disk>>

\* lines 472-480, run by a worker
Search(i) ==
    /\ task[i].st = "l472"
    /\ \E sr \in {"match", "empty", "raise"}, mk \in {"ok", "raise"}, dl \in {"ok", "raise"} :
          task' = [task EXCEPT ![i] = SearchStep(task[i], unique_songs[i], download_songs,
                                                sr, mk, dl)]
    /\ UNCHANGED <<config, gate_answers, sanitizer, sources, unique_songs, pc, futures, queue, yielded, results,
                   successful, output, paging, disk>>

\* Yieldable that hands out a finished future again.
YieldableAgain(done, given) == done

\* lines 589-594: as_completed yields a finished future, each future once
Yieldable(done, given) == done \ given

\* Aggregate that counts every outcome as a success.
AggregateCountsAll(res, count, t) ==
    [results |-> Append(res, t.result), successful |-> count + 1]

\* lines 590-594 for a future whose call returned
Aggregate(res, count, t) ==
    [results |-> Append(res, t.result),
     successful |-> IF t.success THEN count + 1 ELSE count]

Collect(i) ==
    /\ pc = "collect"
    /\ i \in Yieldable(Finished, yielded)
    /\ task[i].st = "returned"
    /\ yielded' = yielded \cup {i}
    /\ results' = Aggregate(results, successful, task[i]).results
    /\ successful' = Aggregate(results, successful, task[i]).successful
    /\ UNCHANGED <<config, gate_answers, sanitizer, sources, unique_songs, pc, futures, queue, task,
                   output, paging, disk>>

\* line 590: future.result() re-raises what the call raised; main leaves the loop
CollectRaised(i) ==
    /\ pc = "collect"
    /\ i \in Yieldable(Finished, yielded)
    /\ task[i].st = "raised"
    /\ yielded' = yielded \cup {i}
    /\ pc' = "aborting"
    /\ UNCHANGED <<config, gate_answers, sanitizer, sources, unique_songs, futures, queue, task, results,
                   successful, output, paging, disk>>

\* The with block's exit waits for every submitted call (shutdown(wait=True)),
\* then the exception ends main: nothing is written.
Abort ==
    /\ pc = "aborting"
    /\ Finished = Tasks
    /\ pc' = "aborted"
    /\ UNCHANGED <<config, gate_answers, sanitizer, sources, unique_songs, futures, queue, task, yielded, results,
                   successful, output, paging, disk>>

\* line 597: json.dump(results, f): the document is the list itself, a JSON
\* array, which has no keys beside its entries.
ReportTopLevelKeys == {}

\* lines 599-602
Summary(total, count) ==
    [processed |-> total, successful |-> count, failed |-> total - count]

\* lines 596-602: the loop is exhausted; results.json and the summary
Write ==
    /\ pc = "collect"
    /\ yielded = Tasks
    /\ report' = results
    /\ writes' = writes + 1
    /\ summary' = Summary(Len(unique_songs), successful)
    /\ pc' = "written"
    /\ UNCHANGED <<config, gate_answers, sanitizer, sources, unique_songs, futures, queue, task, yielded, results,
                   successful, paging, disk>>

Next ==
    \/ Deduplicate
    \/ Confirm
    \/ Submit
    \/ Submitted
    \/ \E i \in Tasks : Begin(i)
    \/ \E i \in Tasks : DirectSpotify(i)
    \/ \E i \in Tasks : DirectYoutube(i)
    \/ \E i \in Tasks : Search(i)
    \/ \E i \in Tasks : Collect(i)
    \/ \E i \in Tasks : CollectRaised(i)
    \/ Abort
    \/ Write

Spec == Init /\ [][Next]_vars

\* A step of a worker thread of the pool.
WorkerStep ==
    \E i \in Tasks : Begin(i) \/ DirectSpotify(i) \/ DirectYoutube(i) \/ Search(i)

\* The worker threads keep running while they have work, and every backend
\* call returns.
FairSpec == Spec /\ WF_vars(WorkerStep)

\* ------------------------------------------- deduplication on its own
\* Records whose names and artists contain the separator of the identifier,
\* each (name, artist) in both catalogs.
DedupNames == {<<"A">>, <<"A", "|", "B">>, <<"A", "B">>}
DedupArtists == {<<"C">>, <<"B", "|", "C">>}

DedupRecords ==
    {SpotifySong(n, a, <<"u", "1">>, <<"L">>) : n \in DedupNames, a \in DedupArtists}
    \cup {YtmusicSong(n, a, <<"v">>, <<"M">>) : n \in DedupNames, a \in DedupArtists}

InitDedup ==
    /\ all_songs \in SeqsUpTo(DedupRecords, MaxLen)
    /\ download_songs = FALSE
    /\ zotify_available = FALSE
    /\ max_workers = 1
    /\ InitMain
    /\ InitSanitizer
    /\ InitSources
    /\ InitPaging
    /\ InitDisk

NextDedup == Deduplicate

SpecDedup == InitDedup /\ [][NextDedup]_vars

Deduplicated == pc # "dedupe"

\* The positions of all_songs that hold the first record with their key.
FirstSeen == {i \in 1..Len(all_songs) :
                 \A j \in 1..(i - 1) : Identifier(all_songs[j]) # Identifier(all_songs[i])}

\* The k-th smallest position of FirstSeen.
NthFirstSeen(k) == CHOOSE p \in FirstSeen : Cardinality({q \in FirstSeen : q < p}) = k - 1

\* C8: the deduplicated list is exactly the records of the input that are the
\* first with their dedup key, in input order (so later records with a key
\* already seen are discarded and first-seen order is kept); it is never
\* longer than the input; and deduplicating it again leaves it unchanged.
C8_DedupFirstSeenOrder ==
    Deduplicated =>
        /\ Len(unique_songs) = Cardinality(FirstSeen)
        /\ \A k \in 1..Len(unique_songs) : unique_songs[k] = all_songs[NthFirstSeen(k)]
        /\ Len(unique_songs) <= Len(all_songs)
        /\ Dedupe(unique_songs) = unique_songs

\* A duplicate in the middle was discarded and the order of the rest kept.
C8_Witness ==
    /\ Deduplicated
    /\ Len(all_songs) = 3
    /\ Len(unique_songs) = 2
    /\ Identifier(all_songs[1]) = Identifier(all_songs[2])
    /\ all_songs[1] # all_songs[2]
    /\ unique_songs = <<all_songs[1], all_songs[3]>>

SameNameAndArtist(a, b) == a.name = b.name /\ a.artist = b.artist

\* C9: two records are collapsed if and only if their names are equal and
\* their artists are equal: each (name, artist) of the input is kept exactly
\* once, also for strings that contain '|'.
C9_CollapsedIffSameNameAndArtist ==
    Deduplicated =>
        \A i \in 1..Len(all_songs) :
            Cardinality({k \in 1..Len(unique_songs) :
                            SameNameAndArtist(unique_songs[k], all_songs[i])}) = 1

\* ------------------------------------------------- process_song properties
Returned(i) == task[i].st = "returned"

SearchCalls(t) == {k \in DOMAIN t.log : t.log[k].fn = "search_youtube_for_song"}

DownloadCalls(t) ==
    {k \in DOMAIN t.log : t.log[k].fn \in {"download_with_zotify", "download_youtube_audio"}}

\* The calls of the direct-locator step: a download backend called by
\* process_song itself, before any search.
DirectCalls(t) == {k \in DownloadCalls(t) : \A j \in SearchCalls(t) : k < j}

DirectGavePath(t) == \E k \in DirectCalls(t) : t.log[k].ret = "path"
DirectGaveNothing(t) == \E k \in DirectCalls(t) : t.log[k].ret # "path"

\* C1: once the direct backend of a track (download_with_zotify, or
\* download_youtube_audio called for the track's videoId) has returned a path,
\* process_song has returned success and has not called the search.
C1_DirectSuccessSkipsSearch ==
    \A i \in Tasks :
        DirectGavePath(task[i]) =>
            /\ Returned(i)
            /\ task[i].success
            /\ SearchCalls(task[i]) = {}

\* Both direct backends have returned a path in one run.
C1_Witness ==
    /\ \E i \in Tasks :
          /\ Returned(i)
          /\ unique_songs[i].source = "spotify"
          /\ DirectGavePath(task[i])
          /\ task[i].result.spotify_direct
    /\ \E i \in Tasks :
          /\ Returned(i)
          /\ unique_songs[i].source = "ytmusic"
          /\ DirectGavePath(task[i])
          /\ ~Falsy(task[i].result.youtube.download_path)

\* C2 as stated: with download requested, a returned call whose direct step was
\* attempted and gave no path has called the search, whatever the catalog.
C2_Original ==
    download_songs =>
        \A i \in Tasks :
            (Returned(i) /\ DirectGaveNothing(task[i])) => SearchCalls(task[i]) # {}

\* C2 amended: with download requested, a returned call whose direct step gave
\* no path has called the search afterwards if the direct backend was
\* download_with_zotify (primary catalog); if it was download_youtube_audio
\* (video catalog, videoId) the call returned failure without any search.
C2_FallThroughPrimaryOnly ==
    download_songs =>
        \A i \in Tasks :
            (Returned(i) /\ DirectGaveNothing(task[i])) =>
                IF unique_songs[i].source = "spotify"
                THEN \E k \in DirectCalls(task[i]), j \in SearchCalls(task[i]) : k < j
                ELSE SearchCalls(task[i]) = {} /\ ~task[i].success

\* A primary-catalog track fell through to the search, and a video-catalog
\* track failed on its direct download.
C2_Witness ==
    /\ download_songs
    /\ \E i \in Tasks :
          /\ Returned(i)
          /\ unique_songs[i].source = "spotify"
          /\ DirectGaveNothing(task[i])
          /\ SearchCalls(task[i]) # {}
    /\ \E i \in Tasks :
          /\ Returned(i)
          /\ unique_songs[i].source = "ytmusic"
          /\ DirectGaveNothing(task[i])
          /\ task[i].message = "Failed"

LocatorResolved(t) == t.result.youtube # NoVideo \/ t.result.spotify_direct

NoLocalFile(t) == Falsy(t.result.download_path) /\ Falsy(t.result.youtube.download_path)

\* C3: with download requested, an outcome that carries a resolved locator but
\* no local file is a failed outcome.
C3_NoFileMeansFailed ==
    download_songs =>
        \A i \in Tasks :
            (Returned(i) /\ LocatorResolved(task[i]) /\ NoLocalFile(task[i])) => ~task[i].success

\* A backend function raised into process_song, or into the search that
\* process_song called.
BackendRaised(t) == \E k \in DOMAIN t.log : t.log[k].ret = "raise"

EntriesFor(list, i) == {k \in DOMAIN list : list[k].spotify = unique_songs[i]}

C5_PoolBound ==
    /\ [](Cardinality(Running) <= max_workers)
    /\ [][queue' # queue /\ Len(queue') < Len(queue) => Cardinality(Running) < max_workers]_vars

\* The pool is full while a submitted task waits in the queue.
C5_Witness ==
    /\ Cardinality(Running) = max_workers
    /\ queue # <<>>

\* C6: no deduplicated track is ever submitted twice; once submission is over
\* (in a run the gate of line 575 let through) every deduplicated track has
\* been submitted exactly once; and the list written to results.json holds
\* exactly one outcome for each of them.
C6_ExactlyOnce ==
    /\ \A i \in Tasks : Cardinality({k \in DOMAIN futures : futures[k] = i}) <= 1
    /\ pc \notin {"dedupe", "gate", "declined", "submit"} =>
          /\ Len(futures) = Len(unique_songs)
          /\ \A i \in Tasks : Cardinality({k \in DOMAIN futures : futures[k] = i}) = 1
    /\ writes > 0 =>
          /\ Len(report) = Len(unique_songs)
          /\ \A i \in Tasks : Cardinality(EntriesFor(report, i)) = 1

\* A report whose outcomes arrived out of submission order.
C6_Witness ==
    /\ writes > 0
    /\ Len(report) = 2
    /\ report[1].spotify = unique_songs[2]
    /\ report[2].spotify = unique_songs[1]

\* C7: when the report is written, the printed successful count is the number
\* of calls that returned success, the printed failed count is the number that
\* returned failure, the two add up to the number of submitted tracks, and the
\* report holds as many outcomes as the deduplicated input has tracks.
C7_AggregateConsistency ==
    writes > 0 =>
        /\ summary.successful = Cardinality({i \in Tasks : Returned(i) /\ task[i].success})
        /\ summary.failed = Cardinality({i \in Tasks : Returned(i) /\ ~task[i].success})
        /\ summary.successful + summary.failed = Len(futures)
        /\ Len(report) = Len(Dedupe(all_songs))

\* A written report with both succeeded and failed outcomes.
C7_Witness ==
    /\ writes > 0
    /\ summary.successful > 0
    /\ summary.failed > 0

\* -------------------------------------------------------- resolve-only mode
HasDirectLocator(song) ==
    \/ song.source = "spotify" /\ ~Falsy(song.uri)
    \/ song.source = "ytmusic" /\ ~Falsy(song.videoId)

SearchMatched(t) == \E k \in SearchCalls(t) : t.log[k].ret = "match"

\* C10 as stated: in resolve-only mode no download backend is called, and the
\* outcome is a success whenever the track has a direct locator or the search
\* returned a match.
C10_Original ==
    ~download_songs =>
        \A i \in Tasks :
            /\ DownloadCalls(task[i]) = {}
            /\ (Returned(i) /\ (HasDirectLocator(unique_songs[i]) \/ SearchMatched(task[i])))
                  => task[i].success

\* C10 amended: in resolve-only mode no download backend is called, and the
\* outcome is a success whenever the track is a video-catalog track with a
\* videoId or the search returned a match.
C10_ResolveOnly ==
    ~download_songs =>
        \A i \in Tasks :
            /\ DownloadCalls(task[i]) = {}
            /\ (Returned(i) /\ (   (unique_songs[i].source = "ytmusic"
                                    /\ ~Falsy(unique_songs[i].videoId))
                                \/ SearchMatched(task[i])))
                  => task[i].success

\* In resolve-only mode one track was found by its videoId and another by search.
C10_Witness ==
    /\ ~download_songs
    /\ \E i \in Tasks :
          /\ Returned(i)
          /\ SearchCalls(task[i]) = {}
          /\ task[i].message = "Found"
    /\ \E i \in Tasks :
          /\ Returned(i)
          /\ SearchMatched(task[i])
          /\ task[i].message = "Found"

\* ------------------------------------------------------------ not found
\* The direct-locator step does not apply to the song: no videoId of the video
\* catalog, and no Zotify download (resolve-only, or Zotify not available).
NoUsableDirectLocator(song) ==
    /\ ~(song.source = "ytmusic" /\ ~Falsy(song.videoId))
    /\ ~(song.source = "spotify" /\ download_songs /\ zotify_available)

\* The search came back without a match (not: with a match whose download raised).
SearchFoundNothing(t) ==
    \E k \in SearchCalls(t) :
        /\ t.log[k].ret = "none"
        /\ \A j \in DownloadCalls(t) : j > k => t.log[j].ret # "raise"

\* C11: for a track without usable direct locator whose search found no match,
\* process_song has returned (not raised) a failed outcome with the message
\* "Not found", and has called no download backend.
C11_NotFoundIsFailedOutcome ==
    \A i \in Tasks :
        (NoUsableDirectLocator(unique_songs[i]) /\ SearchFoundNothing(task[i])) =>
            /\ Returned(i)
            /\ ~task[i].success
            /\ task[i].message = "Not found"
            /\ DownloadCalls(task[i]) = {}

\* With download requested, a track without videoId was not found.
C11_Witness ==
    /\ download_songs
    /\ \E i \in Tasks :
          /\ NoUsableDirectLocator(unique_songs[i])
          /\ SearchFoundNothing(task[i])
          /\ task[i].message = "Not found"

\* C12: no exception ever leaves a call of process_song, so future.result()
\* never raises in main and main is never aborted before the report.
C12_NoErrorLeavesTask ==
    /\ \A i \in Tasks : task[i].st # "raised"
    /\ pc \notin {"aborting", "aborted"}

\* ------------------------------------------------- unavailable direct backend
\* The outcome that the search alone gives.
OutcomeOfSearch(t) ==
    [success |-> SearchMatched(t),
     message |-> IF ~SearchMatched(t) THEN "Not found"
                 ELSE IF ~Falsy(t.result.youtube.download_path) THEN "YouTube" ELSE "Found"]

\* C14: with download requested, a primary-catalog track whose direct backend
\* gave no file has an outcome that is the search's alone, and the same whether
\* Zotify was unavailable (never called) or available and returned nothing.
C14_UnavailableIsFailedAttempt ==
    download_songs =>
        \A i \in Tasks :
            (Returned(i) /\ unique_songs[i].source = "spotify" /\ ~DirectGavePath(task[i])) =>
                /\ SearchCalls(task[i]) # {}
                /\ (DirectCalls(task[i]) # {}) = zotify_available
                /\ task[i].success = OutcomeOfSearch(task[i]).success
                /\ task[i].message = OutcomeOfSearch(task[i]).message
                /\ ~task[i].result.spotify_direct
                /\ task[i].result.download_path = Absent

\* Zotify was available, returned nothing, and the search then found the track.
C14_Witness ==
    /\ download_songs
    /\ zotify_available
    /\ \E i \in Tasks :
          /\ Returned(i)
          /\ unique_songs[i].source = "spotify"
          /\ DirectGaveNothing(task[i])
          /\ SearchMatched(task[i])
          /\ task[i].success

\* ----------------------------------------------------------- report content
\* C16: every outcome of the written report carries its success flag and its
\* message, and the report carries the counts total, succeeded and failed.
C16_ReportHasFlagsAndCounts ==
    writes > 0 =>
        /\ \A k \in DOMAIN report : {"success", "message"} \subseteq DOMAIN report[k]
        /\ {"total", "succeeded", "failed"} \subseteq ReportTopLevelKeys

\* ------------------------------------------------------ confirmation gate
\* C15: above the gate's size, tasks are submitted only after the user has
\* confirmed; after a refusal nothing is submitted and nothing written; the
\* prompt is shown at most once, and only before the first submission.
C15_GateBeforeSubmission ==
    /\ []((GateNeeded(Len(unique_songs)) /\ futures # <<>>) => gate_answers = <<"y">>)
    /\ [](pc = "declined" =>
             /\ futures = <<>>
             /\ writes = 0
             /\ \A i \in Tasks : task[i].st = "new")
    /\ [](Len(gate_answers) <= 1)
    /\ [][gate_answers' # gate_answers =>
             /\ GateNeeded(Len(unique_songs))
             /\ pc = "gate"
             /\ futures = <<>> /\ futures' = <<>>]_vars
    /\ [][pc = "declined" => pc' = "declined"]_vars

\* The user confirmed and the report of the run was written.
C15_Witness ==
    /\ gate_answers = <<"y">>
    /\ writes > 0
    /\ Len(report) > ConfirmAbove

\* --------------------------------------------------------- run to completion
Unfinished == {i \in Tasks : task[i].st \in {"queued", "l452", "l459", "l472"}}

\* C13: every submitted task is eventually started and finished (process_song
\* returns, or raises), whatever happens to the other tasks and to main: from
\* some point on no submitted task is waiting or running, a submitted task is
\* never taken back, and a finished one stays as it finished.
C13_SubmittedTasksComplete ==
    /\ <>[](Unfinished = {})
    /\ [][\A i \in Tasks :
             /\ task[i].st # "new" => task'[i].st # "new"
             /\ task[i].st \in {"returned", "raised"} => task'[i] = task[i]]_vars

\* Main was aborted by the exception of one task, and a task it never collected
\* has run to completion all the same.
C13_Witness ==
    /\ pc = "aborted"
    /\ \E i \in Tasks : Returned(i) /\ i \notin yielded

\* ----------------------------------------------- sanitization on its own
\* The characters of the strings handed to the sanitization: letters, digits,
\* the three characters that are kept, and characters that are not.
SanChars == {"A", "1", " ", "-", "_", "/", "|"}

InitSanitize ==
    /\ san_in \in SeqsUpTo(SanChars, MaxLen)
    /\ san_out = Absent
    /\ all_songs = <<>>
    /\ download_songs = FALSE
    /\ zotify_available = FALSE
    /\ max_workers = 1
    /\ InitMain
    /\ InitSources
    /\ InitPaging
    /\ InitDisk

\* line 450 (and lines 161-162) applied to san_in
ApplySanitize ==
    /\ san_out = Absent
    /\ san_out' = Sanitize(san_in)
    /\ UNCHANGED <<config, gate_answers, san_in, sources, unique_songs, pc, futures, queue, task,
                   yielded, results, successful, output, paging, disk>>

NextSanitize == ApplySanitize

SpecSanitize == InitSanitize /\ [][NextSanitize]_vars

Sanitized == san_out # Absent

\* C19: the sanitized string holds only alphanumeric characters, spaces, '-'
\* and '_'; the empty string and every string of invalid characters only give
\* the empty string; and the sanitization returns a string, it does not raise.
C19_SanitizeOnlySafeChars ==
    Sanitized =>
        /\ san_out # Raise
        /\ \A k \in 1..Len(san_out) : san_out[k] \in AlnumChars \cup {" ", "-", "_"}
        /\ san_in = <<>> => san_out = <<>>
        /\ (\A k \in 1..Len(san_in) : san_in[k] \in {"/", "|"}) => san_out = <<>>

\* A string with valid and invalid characters was sanitized to its valid ones.
C19_Witness ==
    /\ Sanitized
    /\ san_in = <<"A", "/", "1">>
    /\ san_out = <<"A", "1">>

\* ---------------------------------------------------------- output file paths
\* lines 154-162, 209: the file download_youtube_audio writes for the song
OutputPath(song) ==
    download_youtube_audio("ok", "ok", song.name, song.artist, safe_subfolder(song)).ret

\* C20: the output file paths of two distinct deduplicated tracks differ.
C20_OutputPathsDiffer ==
    Deduplicated =>
        \A i, j \in 1..Len(unique_songs) :
            i # j => OutputPath(unique_songs[i]) # OutputPath(unique_songs[j])

\* ---------------------------------------------------- collecting the sources
\* The sentences of this section are about main from line 493 to line 564:
\* pc goes from "start" to "dedupe" (the sources are collected), "no_songs"
\* (main returned at line 502) or "crashed" (an exception left main).

\* The lines of playlists.txt when main is followed through all its sources,
\* and when process_playlists_file is followed on its own.
MaxLines == 1
MaxFileLines == 3

\* The lines playlists.txt may hold: the URLs, a comment and a blank line.
CommentLine == <<"#", "x">>
BlankLine == <<" ">>
FileLines == Urls \cup {CommentLine, BlankLine}

pool == <<unique_songs, gate_answers, futures, queue, task, yielded, results, successful>>

InitCollect ==
    /\ file_exists \in BOOLEAN
    /\ file_lines \in (IF file_exists THEN SeqsUpTo(FileLines, MaxLines) ELSE {<<>>})
    /\ credentials \in BOOLEAN
    /\ urls = <<>>
    /\ line_no = 0
    /\ source_choice = ""
    /\ spotify_choice = ""
    /\ ytm_choice = ""
    /\ playlists = <<>>
    /\ selected = <<>>
    /\ catalog_log = <<>>
    /\ all_songs = <<>>
    /\ download_songs = FALSE
    /\ zotify_available = FALSE
    /\ max_workers = 1
    /\ pc = "start"
    /\ unique_songs = <<>>
    /\ gate_answers = <<>>
    /\ futures = <<>>
    /\ queue = <<>>
    /\ task = <<>>
    /\ yielded = {}
    /\ results = <<>>
    /\ successful = 0
    /\ report = <<>>
    /\ writes = 0
    /\ summary = NoSummary
    /\ InitSanitizer
    /\ InitPaging
    /\ InitDisk

\* One request to a catalog: the function asking, what it asked for, the line
\* of playlists.txt it came from (0 outside the file), whether the catalog
\* raised, and the songs the listing function made of it.
CatalogCall(fn, arg, line, raised, songs) ==
    [fn |-> fn, arg |-> arg, line |-> line, raised |-> raised, songs |-> songs]

\* line 430: the stripped lines that are not empty and do not start with '#'
KeepLine(line) == Strip(line) # <<>> /\ ~(line # <<>> /\ Head(line) = "#")
ReadUrls(lines) ==
    LET kept == SelectSeq(lines, KeepLine) IN [i \in 1..Len(kept) |-> Strip(kept[i])]

\* line 494: there is no playlists.txt
NoPlaylistsFile ==
    /\ pc = "start"
    /\ ~file_exists
    /\ pc' = "menu"
    /\ UNCHANGED <<config, environment, urls, line_no, choices, playlists, selected, catalog_log,
                   pool, output, sanitizer, paging, disk>>

\* lines 494-497 and 425-431: the prompt, and the reading of the file
AskUseFile ==
    /\ pc = "start"
    /\ file_exists
    /\ \E a \in Answers :
          IF Lower(a) = "y"
          THEN /\ urls' = ReadUrls(file_lines)
               /\ line_no' = 1
               /\ pc' = "file"
          ELSE /\ pc' = "menu"
               /\ UNCHANGED <<urls, line_no>>
    /\ UNCHANGED <<config, environment, choices, playlists, selected, catalog_log, pool, output,
                   sanitizer, paging, disk>>

\* lines 434, 438: the catalog a line is sent to
IsSpotifyLine(url) == Contains(url, SpotifyCom) \/ Contains(url, SpotifyColon)
IsYoutubeLine(url) == Contains(url, YoutubeCom) \/ Contains(url, MusicYoutubeCom)

\* lines 432-444: one round of the loop of process_playlists_file
ProcessLine ==
    /\ pc = "file"
    /\ line_no \in 1..Len(urls)
    /\ LET url == urls[line_no]
       IN  IF IsSpotifyLine(url)
           THEN \E cat \in CatalogOutcomes :
                   LET songs == get_spotify_playlist_from_url(cat, url)
                       id    == parse_spotify_url(url).id
                   IN  /\ all_songs' = all_songs \o songs
                       /\ catalog_log' =
                             IF SpotifyUrlAccepted(url)
                             THEN Append(catalog_log,
                                         CatalogCall("playlist", id, line_no,
                                                     cat = "raise" \/ id \notin SpotifyPlaylistIds,
                                                     songs))
                             ELSE catalog_log
           ELSE IF IsYoutubeLine(url)
           THEN \E cat \in YoutubeOutcomes :
                   LET songs == get_ytmusic_playlist_from_url(cat, url)
                       id    == parse_youtube_url(url)
                   IN  /\ all_songs' = all_songs \o songs
                       /\ catalog_log' =
                             IF YoutubeUrlAccepted(url)
                             THEN Append(catalog_log,
                                         CatalogCall("extract_info", id, line_no,
                                                     cat # "ok" \/ id \notin YoutubePlaylistIds,
                                                     songs))
                             ELSE catalog_log
           ELSE UNCHANGED <<all_songs, catalog_log>>
    /\ line_no' = line_no + 1
    /\ UNCHANGED <<download_songs, zotify_available, max_workers, environment, urls, choices,
                   playlists, selected, pc, pool, output, sanitizer, paging, disk>>

\* lines 445 and 498-502: the file is done; main asks whether to download, or
\* returns when the file gave no song
FileDone ==
    /\ pc = "file"
    /\ line_no > Len(urls)
    /\ IF all_songs # <<>>
       THEN \E a \in Answers :
               /\ download_songs' = (Lower(a) = "y")
               /\ pc' = "dedupe"
       ELSE /\ pc' = "no_songs"
            /\ UNCHANGED download_songs
    /\ UNCHANGED <<all_songs, zotify_available, max_workers, sources, pool, output, sanitizer,
                   paging, disk>>

SourceChoices == {"1", "2", "3", "9"}
SpotifyChoices == {"1", "2", "3", "4", "9"}
YtmChoices == {"1", "2", "9"}

\* line 555: where main goes after the Spotify part
AfterSpotify(source) == IF source \in {"2", "3"} THEN "ytm" ELSE "dedupe"

\* lines 504-512: the source menu
ChooseSource ==
    /\ pc = "menu"
    /\ \E c \in SourceChoices, a \in Answers :
          /\ source_choice' = c
          /\ download_songs' = (Lower(a) = "y")
          /\ pc' = IF c \in {"1", "3"} THEN "spotify" ELSE AfterSpotify(c)
    /\ UNCHANGED <<all_songs, zotify_available, max_workers, environment, urls, line_no,
                   spotify_choice, ytm_choice, playlists, selected, catalog_log, pool, output,
                   sanitizer, paging, disk>>

\* lines 514-519, 545: the Spotify menu
ChooseSpotify ==
    /\ pc = "spotify"
    /\ credentials
    /\ \E c \in SpotifyChoices :
          /\ spotify_choice' = c
          /\ pc' = IF c \in {"1", "3"} THEN "liked"
                   ELSE IF c = "2" THEN "playlists"
                   ELSE IF c = "4" THEN "spotify_url"
                   ELSE AfterSpotify(source_choice)
    /\ UNCHANGED <<config, environment, urls, line_no, source_choice, ytm_choice, playlists,
                   selected, catalog_log, pool, output, sanitizer, paging, disk>>

\* lines 549-550: without credentials only a public URL can be given
NoCredentials ==
    /\ pc = "spotify"
    /\ ~credentials
    /\ pc' = "spotify_url"
    /\ UNCHANGED <<config, sources, pool, output, sanitizer, paging, disk>>

\* lines 517-518: the liked songs; an exception of the listing leaves main
ListLiked ==
    /\ pc = "liked"
    /\ \E cat \in CatalogOutcomes :
          LET listed == get_spotify_liked_songs(cat)
          IN  /\ catalog_log' = Append(catalog_log,
                     CatalogCall("current_user_saved_tracks", <<>>, 0, listed.exc,
                                 listed.value))
              /\ IF listed.exc
                 THEN /\ pc' = "crashed"
                      /\ UNCHANGED all_songs
                 ELSE /\ all_songs' = all_songs \o listed.value
                      /\ pc' = IF spotify_choice \in {"2", "3"} THEN "playlists"
                               ELSE AfterSpotify(source_choice)
    /\ UNCHANGED <<download_songs, zotify_available, max_workers, environment, urls, line_no,
                   choices, playlists, selected, pool, output, sanitizer, paging, disk>>

\* lines 520-525: the user's playlists; an exception of the listing leaves main
ListPlaylists ==
    /\ pc = "playlists"
    /\ \E cat \in CatalogOutcomes \cup {"empty"} :
          LET listed == get_spotify_playlists(cat)
          IN  /\ catalog_log' = Append(catalog_log,
                     CatalogCall("current_user_playlists", <<>>, 0, listed.exc, <<>>))
              /\ IF listed.exc
                 THEN /\ pc' = "crashed"
                      /\ UNCHANGED playlists
                 ELSE /\ playlists' = listed.value
                      /\ pc' = "select"
    /\ UNCHANGED <<config, environment, urls, line_no, choices, selected, pool, output, sanitizer,
                   paging, disk>>

\* lines 526-540: one round of the prompt loop
Select ==
    /\ pc = "select"
    /\ \E typed \in Choices :
          /\ selected' = SelectPlaylists(typed, playlists)
          /\ pc' = IF selected' # <<>> THEN "fetch" ELSE "select"
    /\ UNCHANGED <<config, environment, urls, line_no, choices, playlists, catalog_log, pool,
                   output, sanitizer, paging, disk>>

\* lines 542-544: the songs of the next selected playlist; an exception of the
\* listing leaves main
FetchPlaylist ==
    /\ pc = "fetch"
    /\ selected # <<>>
    /\ \E cat \in CatalogOutcomes :
          LET p      == Head(selected)
              listed == get_spotify_playlist_songs(cat, p.id, p.name)
          IN  /\ catalog_log' = Append(catalog_log,
                     CatalogCall("playlist_tracks", p.id, 0, listed.exc, listed.value))
              /\ IF listed.exc
                 THEN /\ pc' = "crashed"
                      /\ UNCHANGED <<all_songs, selected>>
                 ELSE /\ all_songs' = all_songs \o listed.value
                      /\ selected' = Tail(selected)
                      /\ pc' = IF Tail(selected) = <<>> THEN AfterSpotify(source_choice)
                               ELSE "fetch"
    /\ UNCHANGED <<download_songs, zotify_available, max_workers, environment, urls, line_no,
                   choices, playlists, pool, output, sanitizer, paging, disk>>

\* lines 546-548 and 551-553: a playlist URL typed by the user
SpotifyUrl ==
    /\ pc = "spotify_url"
    /\ \E url \in Urls, cat \in CatalogOutcomes :
          LET songs == get_spotify_playlist_from_url(cat, url)
              id    == parse_spotify_url(url).id
          IN  /\ all_songs' = all_songs \o songs
              /\ catalog_log' =
                    IF SpotifyUrlAccepted(url)
                    THEN Append(catalog_log,
                                CatalogCall("playlist", id, 0,
                                            cat = "raise" \/ id \notin SpotifyPlaylistIds, songs))
                    ELSE catalog_log
    /\ pc' = AfterSpotify(source_choice)
    /\ UNCHANGED <<download_songs, zotify_available, max_workers, environment, urls, line_no,
                   choices, playlists, selected, pool, output, sanitizer, paging, disk>>

\* lines 555-561: the YouTube Music menu
ChooseYtm ==
    /\ pc = "ytm"
    /\ \E c \in YtmChoices :
          /\ ytm_choice' = c
          /\ pc' = IF c = "1" THEN "ytm_liked" ELSE IF c = "2" THEN "ytm_url" ELSE "dedupe"
    /\ UNCHANGED <<config, environment, urls, line_no, source_choice, spotify_choice, playlists,
                   selected, catalog_log, pool, output, sanitizer, paging, disk>>

\* line 560: the liked songs of YouTube Music
YtmLiked ==
    /\ pc = "ytm_liked"
    /\ \E cat \in YoutubeOutcomes :
          LET songs == get_ytmusic_liked_songs(cat)
          IN  /\ all_songs' = all_songs \o songs
              /\ catalog_log' = Append(catalog_log,
                     CatalogCall("extract_info", <<"L", "M">>, 0, cat # "ok", songs))
    /\ pc' = "dedupe"
    /\ UNCHANGED <<download_songs, zotify_available, max_workers, environment, urls, line_no,
                   choices, playlists, selected, pool, output, sanitizer, paging, disk>>

\* lines 562-564: a YouTube Music playlist URL typed by the user
YtmUrl ==
    /\ pc = "ytm_url"
    /\ \E url \in Urls, cat \in YoutubeOutcomes :
          LET songs == get_ytmusic_playlist_from_url(cat, url)
              id    == parse_youtube_url(url)
          IN  /\ all_songs' = all_songs \o songs
              /\ catalog_log' =
                    IF YoutubeUrlAccepted(url)
                    THEN Append(catalog_log,
                                CatalogCall("extract_info", id, 0,
                                            cat # "ok" \/ id \notin YoutubePlaylistIds, songs))
                    ELSE catalog_log
    /\ pc' = "dedupe"
    /\ UNCHANGED <<download_songs, zotify_available, max_workers, environment, urls, line_no,
                   choices, playlists, selected, pool, output, sanitizer, paging, disk>>

NextCollect ==
    \/ NoPlaylistsFile
    \/ AskUseFile
    \/ ProcessLine
    \/ FileDone
    \/ ChooseSource
    \/ ChooseSpotify
    \/ NoCredentials
    \/ ListLiked
    \/ ListPlaylists
    \/ Select
    \/ FetchPlaylist
    \/ SpotifyUrl
    \/ ChooseYtm
    \/ YtmLiked
    \/ YtmUrl

SpecCollect == InitCollect /\ [][NextCollect]_vars

\* C17: when a catalog call raises while one requested source is listed and
\* another source was requested too, the failure does not abort the run: main
\* goes on to the other sources and to deduplication.
AnotherSourceRequested == source_choice = "3" \/ spotify_choice = "3"

CatalogRaised == \E k \in 1..Len(catalog_log) : catalog_log[k].raised

C17_CatalogRaiseDoesNotAbort ==
    (CatalogRaised /\ AnotherSourceRequested) => pc # "crashed"

\* ------------------------------------------ process_playlists_file on its own
\* process_playlists_file called by main at line 497, for every content of
\* playlists.txt up to MaxFileLines lines.
InitFile ==
    /\ file_exists = TRUE
    /\ file_lines \in SeqsUpTo(FileLines, MaxFileLines)
    /\ credentials = FALSE
    /\ urls = ReadUrls(file_lines)
    /\ line_no = 1
    /\ source_choice = ""
    /\ spotify_choice = ""
    /\ ytm_choice = ""
    /\ playlists = <<>>
    /\ selected = <<>>
    /\ catalog_log = <<>>
    /\ all_songs = <<>>
    /\ download_songs = FALSE
    /\ zotify_available = FALSE
    /\ max_workers = 1
    /\ pc = "file"
    /\ unique_songs = <<>>
    /\ gate_answers = <<>>
    /\ futures = <<>>
    /\ queue = <<>>
    /\ task = <<>>
    /\ yielded = {}
    /\ results = <<>>
    /\ successful = 0
    /\ report = <<>>
    /\ writes = 0
    /\ summary = NoSummary
    /\ InitSanitizer
    /\ InitPaging
    /\ InitDisk

NextFile == ProcessLine \/ FileDone

SpecFile == InitFile /\ [][NextFile]_vars

\* The lines of the model that name a playlist of one of the catalogs.
ValidLines == {UrlSpotifyPlaylist1, UrlSpotifyPlaylist2, UrlYoutubePlaylist}

\* The lines of urls the loop is done with.
Processed == IF pc = "file" THEN line_no - 1 ELSE Len(urls)

\* The catalog requests made for line k.
CallsOfLine(k) == LET OfLine(e) == e.line = k IN SelectSeq(catalog_log, OfLine)

\* The songs the requests for lines 1..n gave, in line order.
RECURSIVE SongsOfLines(_)
SongsOfLines(n) ==
    IF n = 0 THEN <<>>
    ELSE SongsOfLines(n - 1)
         \o (IF CallsOfLine(n) = <<>> THEN <<>> ELSE CallsOfLine(n)[1].songs)

\* C18: in process_playlists_file a line that is unrecognized or unparseable
\* (a track URL included) makes no catalog request and adds no track, every
\* valid line the loop is done with made exactly one request whatever stood
\* before it, and the tracks collected are the concatenation, in file order,
\* of what the valid lines gave.
C18_InvalidLinesSkipped ==
    line_no > 0 =>
        /\ pc \in {"file", "dedupe", "no_songs"}
        /\ \A k \in 1..Len(urls) :
              Len(CallsOfLine(k)) = IF k <= Processed /\ urls[k] \in ValidLines THEN 1 ELSE 0
        /\ all_songs = SongsOfLines(Processed)

C18_Witness ==
    /\ pc = "dedupe"
    /\ urls = <<UrlSpotifyPlaylist1, UrlSpotifyTrack, UrlYoutubePlaylist>>
    /\ Len(catalog_log) = 2
    /\ Len(all_songs) = 3

\* ------------------------------------------------ download calls side by side
\* The download calls the pool's worker threads (line 586) make at the same
\* time, followed statement by statement: each worker is in one call of
\* download_with_zotify or of download_youtube_audio, and they share the
\* directories and Zotify.CONFIG.ROOT_PATH.

MaxWorkers == 2

Workers == 1..MaxWorkers

\* The subfolders the calls are given: none, or a sanitized collection label.
Subfolders == {<<>>, <<"L">>, <<"M">>}

DownloadCall(fn, subfolder) ==
    [fn |-> fn, subfolder |-> subfolder, st |-> "called", absent |-> FALSE,
     collided |-> FALSE, wrote |-> Absent]

CallsInFlight == {DownloadCall(fn, sub) : fn \in {"zotify", "youtube"}, sub \in Subfolders}

\* os.path.dirname of a download path
Parent(path) == IF path = DOWNLOAD_FOLDER THEN <<".">> ELSE DOWNLOAD_FOLDER

\* The download path of worker w's call (lines 135-138, 154-157).
download_path(w) == DownloadPath(worker[w].subfolder)

InitWorkers ==
    /\ worker \in [Workers -> CallsInFlight]
    /\ dirs \in {{<<".">>}, {<<".">>, DOWNLOAD_FOLDER}}
    /\ root_path = Absent
    /\ InitPaging
    /\ InitSources
    /\ InitSanitizer
    /\ all_songs = <<>>
    /\ download_songs = TRUE
    /\ zotify_available = TRUE
    /\ max_workers = MaxWorkers
    /\ pc = "collect"
    /\ unique_songs = <<>>
    /\ gate_answers = <<>>
    /\ futures = <<>>
    /\ queue = <<>>
    /\ task = <<>>
    /\ yielded = {}
    /\ results = <<>>
    /\ successful = 0
    /\ report = <<>>
    /\ writes = 0
    /\ summary = NoSummary

elsewhere == <<config, sanitizer, sources, paging, pool, pc, output>>

\* lines 139, 159: Path(download_path).mkdir(parents=True, exist_ok=True)
ExistOk == TRUE

\* Path.mkdir that raises whenever os.mkdir finds the directory there.
MkdirRaisesIfExists(exists, exist_ok) == exists

\* Path.mkdir: the FileExistsError of os.mkdir is swallowed when exist_ok is
\* set and the path is a directory
MkdirRaises(exists, exist_ok) == exists /\ ~exist_ok

\* lines 135-139, 154-159: the call computes its path and enters Path.mkdir
EnterMkdir(w) ==
    /\ worker[w].st = "called"
    /\ worker' = [worker EXCEPT ![w].st = "mkdir",
                                ![w].absent = download_path(w) \notin dirs]
    /\ UNCHANGED <<dirs, root_path, elsewhere>>

\* Path.mkdir: os.mkdir(path). A missing parent sends it to create the parent
\* first (parents=True); a directory that is there raises unless exist_ok.
OsMkdir(w) ==
    /\ worker[w].st \in {"mkdir", "mkretry"}
    /\ LET path == download_path(w)
           next == IF worker[w].fn = "zotify" THEN "setroot" ELSE "download"
       IN  IF path \in dirs
           THEN /\ worker' = [worker EXCEPT
                                 ![w].st = IF MkdirRaises(TRUE, ExistOk) THEN "raised" ELSE next,
                                 ![w].collided = worker[w].absent]
                /\ UNCHANGED dirs
           ELSE IF Parent(path) \notin dirs
           THEN /\ worker' = [worker EXCEPT ![w].st = "mkparent"]
                /\ UNCHANGED dirs
           ELSE /\ dirs' = dirs \cup {path}
                /\ worker' = [worker EXCEPT ![w].st = next]
    /\ UNCHANGED <<root_path, elsewhere>>

\* Path.mkdir: self.parent.mkdir(parents=True, exist_ok=True), then again
\* os.mkdir(path)
MkdirParent(w) ==
    /\ worker[w].st = "mkparent"
    /\ dirs' = dirs \cup {Parent(download_path(w))}
    /\ worker' = [worker EXCEPT ![w].st = "mkretry"]
    /\ UNCHANGED <<root_path, elsewhere>>

\* lines 140-141: Zotify.CONFIG.ROOT_PATH = download_path
SetRootPath(w) ==
    /\ worker[w].st = "setroot"
    /\ root_path' = download_path(w)
    /\ worker' = [worker EXCEPT ![w].st = "download"]
    /\ UNCHANGED <<dirs, elsewhere>>

\* lines 142-146: Zotify.download_track(track_uri) writes under the
\* ROOT_PATH of the configuration it finds
ZotifyDownload(w) ==
    /\ worker[w].st = "download"
    /\ worker[w].fn = "zotify"
    /\ worker' = [worker EXCEPT ![w].st = "done", ![w].wrote = root_path]
    /\ UNCHANGED <<dirs, root_path, elsewhere>>

\* lines 161-209: ydl.download writes to the outtmpl under download_path
YoutubeDownload(w) ==
    /\ worker[w].st = "download"
    /\ worker[w].fn = "youtube"
    /\ worker' = [worker EXCEPT ![w].st = "done", ![w].wrote = download_path(w)]
    /\ UNCHANGED <<dirs, root_path, elsewhere>>

NextWorkers ==
    \E w \in Workers :
        \/ EnterMkdir(w)
        \/ OsMkdir(w)
        \/ MkdirParent(w)
        \/ SetRootPath(w)
        \/ ZotifyDownload(w)
        \/ YoutubeDownload(w)

SpecWorkers == InitWorkers /\ [][NextWorkers]_vars

\* C21: a direct download is written under the directory of its own track's
\* collection label, whatever the other workers do meanwhile.
C21_DirectDownloadInOwnDirectory ==
    \A w \in DOMAIN worker :
        (worker[w].fn = "zotify" /\ worker[w].st = "done") =>
            worker[w].wrote = download_path(w)

\* C24: no call fails in Path.mkdir because another worker created the
\* directory in between, and once a call is past Path.mkdir its directory
\* exists.
C24_ConcurrentMkdirSucceeds ==
    \A w \in DOMAIN worker :
        /\ worker[w].st # "raised"
        /\ worker[w].st \in {"setroot", "download", "done"} => download_path(w) \in dirs

\* Two calls for the same directory, absent when both entered Path.mkdir: one
\* of them found it created by the other, and both are done.
C24_Witness ==
    \E v, w \in DOMAIN worker :
        /\ v # w
        /\ download_path(v) = download_path(w)
        /\ worker[v].absent /\ worker[w].absent
        /\ worker[w].collided
        /\ worker[v].st = "done" /\ worker[w].st = "done"

\* ------------------------------------------------------- single writer
\* C22: results and successful are written by the main thread's as_completed
\* loop only: a step that changes either of them is a step of that loop, which
\* hands out one future, appends its result and leaves every task as it is;
\* so at any time results holds one entry per outcome handed out and
\* successful counts the successes among them.
C22_SingleWriter ==
    /\ [](/\ Len(results) = Cardinality({i \in yielded : Returned(i)})
          /\ successful = Cardinality({i \in yielded : Returned(i) /\ task[i].success}))
    /\ [][(results' # results \/ successful' # successful) =>
             /\ pc = "collect"
             /\ task' = task
             /\ \E i \in Tasks \ yielded :
                   /\ yielded' = yielded \cup {i}
                   /\ results' = Append(results, task[i].result)]_vars

\* The main thread has aggregated an outcome while a worker is inside
\* process_song.
C22_Witness ==
    /\ Len(results) >= 1
    /\ successful >= 1
    /\ Running # {}

\* ------------------------------------------------------- writing the report
\* C23: a run whose tasks were submitted ends with results.json written
\* exactly once; it is written only when every submitted task has completed,
\* and it holds the outcomes as they were appended.
C23_ReportWrittenOnceAfterAll ==
    /\ pc \in {"written", "aborted"} => writes = 1
    /\ writes > 0 => (Finished = Tasks /\ report = results)

\* ------------------------------------------------------ the selection prompt
\* The choices of the model that are 'all' in some case, and those that are
\* lists of numbers, with the numbers they hold.
AllTyped == {<<"a", "l", "l">>, <<"A", "l", "l">>}
NumbersTyped ==
    { [typed |-> <<"1">>, numbers |-> {1}], [typed |-> <<"2">>, numbers |-> {2}],
      [typed |-> <<"1", ",", "2">>, numbers |-> {1, 2}], [typed |-> <<"2", ",", "1">>, numbers |-> {1, 2}],
      [typed |-> <<"3">>, numbers |-> {3}], [typed |-> <<"0">>, numbers |-> {0}],
      [typed |-> <<"1", ",">>, numbers |-> {1}], [typed |-> <<" ", "1", " ">>, numbers |-> {1}] }

\* C25: at the selection prompt, whatever list of playlists the catalog gave,
\* typing 'all' or a list with at least one number in range ends the loop
\* with a selection, the selection holds only playlists of the list, and any
\* other input leaves the selection empty (the prompt comes again).
C25_SelectionLoopExits ==
    pc = "select" =>
        /\ \A typed \in AllTyped : SelectPlaylists(typed, playlists) # <<>>
        /\ \A c \in NumbersTyped :
              (c.numbers \cap (1..Len(playlists)) # {}) <=>
                  SelectPlaylists(c.typed, playlists) # <<>>
        /\ \A typed \in Choices :
              \A k \in 1..Len(SelectPlaylists(typed, playlists)) :
                  \E n \in 1..Len(playlists) : SelectPlaylists(typed, playlists)[k] = playlists[n]
        /\ \A typed \in Choices \ (AllTyped \cup {c.typed : c \in NumbersTyped}) :
              SelectPlaylists(typed, playlists) = <<>>

\* ------------------------------------------------------ paginated listings
\* One call of get_spotify_liked_songs, get_spotify_playlists or
\* get_spotify_playlist_songs, followed page by page over a listing that does
\* not change meanwhile. PageSize stands for the limit of the call (50, 50
\* and 100); an item of the listing is a track (a playlist) or null.
PageSize == 2
MaxItems == 5

ListingFunctions == {"get_spotify_liked_songs", "get_spotify_playlists",
                     "get_spotify_playlist_songs"}

\* limit=... of the request, and the step of offset += ...
Limit(fn) == PageSize
OffsetStep(fn) == PageSize

\* lines 326, 285-289, 307-309: only get_spotify_playlist_songs tests the
\* item before it reads its fields
SkipsNull(fn) == fn = "get_spotify_playlist_songs"

InitListing ==
    /\ page_fn \in ListingFunctions
    /\ listing \in SeqsUpTo({"item", "null"}, MaxItems)
    /\ offset = 0
    /\ fetched = <<>>
    /\ requests = <<>>
    /\ page_pc = "loop"
    /\ InitDisk
    /\ InitSanitizer
    /\ file_exists = FALSE
    /\ file_lines = <<>>
    /\ credentials = TRUE
    /\ urls = <<>>
    /\ line_no = 0
    /\ source_choice = "1"
    /\ spotify_choice = IF page_fn = "get_spotify_liked_songs" THEN "1" ELSE "2"
    /\ ytm_choice = ""
    /\ playlists = IF page_fn = "get_spotify_playlist_songs" THEN SpotifyUserPlaylists ELSE <<>>
    /\ selected = playlists
    /\ catalog_log = <<>>
    /\ pc = IF page_fn = "get_spotify_liked_songs" THEN "liked"
            ELSE IF page_fn = "get_spotify_playlists" THEN "playlists"
            ELSE "fetch"
    /\ all_songs = <<>>
    /\ download_songs = FALSE
    /\ zotify_available = FALSE
    /\ max_workers = 1
    /\ unique_songs = <<>>
    /\ gate_answers = <<>>
    /\ futures = <<>>
    /\ queue = <<>>
    /\ task = <<>>
    /\ yielded = {}
    /\ results = <<>>
    /\ successful = 0
    /\ report = <<>>
    /\ writes = 0
    /\ summary = NoSummary

\* What the catalog answers to a request of limit items from offset from.
Page(from, limit) ==
    [k \in 1..(IF Len(listing) - from < 0 THEN 0
               ELSE IF Len(listing) - from < limit THEN Len(listing) - from
               ELSE limit) |-> from + k]

\* The positions of a page the for loop appends, and whether it raises: a null
\* item where the function reads item['track']['name'] (p['id']) unguarded
\* raises TypeError at the first such item.
RECURSIVE Appended(_, _)
Appended(fn, page) ==
    IF page = <<>> THEN [out |-> <<>>, exc |-> FALSE]
    ELSE IF listing[Head(page)] = "null"
    THEN IF SkipsNull(fn) THEN Appended(fn, Tail(page)) ELSE [out |-> <<>>, exc |-> TRUE]
    ELSE LET rest == Appended(fn, Tail(page))
         IN  [out |-> <<Head(page)>> \o rest.out, exc |-> rest.exc]

\* lines 282-283 and 292-293: the loop ends after an empty or a short page
PageStop(page, limit) == page = <<>> \/ Len(page) < limit

\* lines 280-293 (303-312, 321-334): one round of the while loop
RequestPage ==
    /\ page_pc = "loop"
    /\ LET page == Page(offset, Limit(page_fn))
           got  == Appended(page_fn, page)
       IN  /\ requests' = Append(requests, offset)
           /\ IF page = <<>>
              THEN /\ page_pc' = "returned"
                   /\ UNCHANGED <<fetched, offset>>
              ELSE IF got.exc
              THEN /\ page_pc' = "raised"
                   /\ fetched' = fetched \o got.out
                   /\ UNCHANGED offset
              ELSE /\ fetched' = fetched \o got.out
                   /\ offset' = offset + OffsetStep(page_fn)
                   /\ page_pc' = IF PageStop(page, Limit(page_fn)) THEN "returned" ELSE "loop"
    /\ UNCHANGED <<page_fn, listing, config, sanitizer, sources, disk, pool, pc, output>>

NextListing == RequestPage

SpecListing == InitListing /\ [][NextListing]_vars

\* The positions of the listing that hold an item, in order.
NonNull == SelectSeq([k \in 1..Len(listing) |-> k], LAMBDA k : listing[k] # "null")

\* C26: the listing function asks for the pages at offsets 0, L, 2L, ...,
\* never goes on after an empty or a short page, ends for every listing, and
\* returns every non-null item exactly once, in listing order.
C26_PaginationComplete ==
    /\ \A k \in 1..Len(requests) : requests[k] = (k - 1) * PageSize
    /\ \A k \in 1..(Len(requests) - 1) : Len(Page(requests[k], PageSize)) = PageSize
    /\ Len(requests) <= (Len(listing) \div PageSize) + 1
    /\ page_pc # "raised"
    /\ page_pc = "returned" => fetched = NonNull

====
